---- MODULE Spec2Model ----
(***************************************************************************)
(* Model of s3_content_type_fixer.py: a coordinator (main) that lists the  *)
(* keys of a bucket under a list of prefixes, starts W worker processes    *)
(* (check_headers), feeds them the keys through a multiprocessing.Queue    *)
(* followed by one None per worker, and joins them.  Each worker fetches   *)
(* an object's metadata, compares the declared content type with the one   *)
(* guessed from the key's name and, unless this is a dry run, copies the   *)
(* object onto itself with replaced metadata.                              *)
(*                                                                         *)
(* Strings the program inspects character by character (keys, prefixes,    *)
(* the bucket name) are sequences of one-character strings; strings it     *)
(* only compares (content types, metadata values) are TLA+ strings.        *)
(***************************************************************************)
EXTENDS Integers, Sequences, FiniteSets, TLC

VARIABLES
    store,      \* the bucket's objects: key -> [content_type, metadata, content_disposition]
    store0,     \* the store as it was when the current run started
    args,       \* parsed command line: [prefixes, workers, verbose, dryrun]
    run,        \* "first" or "second" invocation of the program on this store
    mpc,        \* main's position
    mi,         \* main's loop counter (workers started / Nones put / processes joined)
    files,      \* the not yet iterated part of find_matching_files' result: key -> count
    queue,      \* the multiprocessing.Queue: sequence of keys and Nones
    pc,         \* each worker's position in check_headers
    key_name,   \* each worker's last dequeued item
    key,        \* each worker's bucket.Object: its loaded attributes and expected type
    enqueued,   \* history: key -> number of queue.put(key)
    dequeued,   \* history: key -> number of queue.get() that returned it
    fetched,    \* history: key -> number of metadata fetches (HEAD requests)
    failed,     \* history: keys whose metadata fetch raised
    interrupted, \* history: workers whose proc.join() was interrupted
    guessed,    \* history: keys for which guess_type was called and returned None
    out,        \* history: lines printed to stdout and stderr
    copies,     \* history: copy_from calls issued in the current run
    probe       \* an object the fix is applied to repeatedly (SpecFix only)

vars == <<store, store0, args, run, mpc, mi, files, queue, pc, key_name, key,
          enqueued, dequeued, fetched, failed, interrupted, guessed, out, copies, probe>>

mainvars == <<store, store0, args, run, mpc, mi, files, queue, pc, key_name, key,
              enqueued, dequeued, fetched, failed, interrupted, guessed, out, copies>>

----------------------------------------------------------------------------
(* Bounds *)

MaxWorkers == 2
MaxApplications == 2

----------------------------------------------------------------------------
(* Values *)

None == "None"              \* Python's None where a string is expected
NoneKey == <<"None">>       \* Python's None as a queue item (keys are sequences of characters)

BucketName == <<"b">>

a_png == <<"a", ".", "p", "n", "g">>
d_dir == <<"d", "/">>
d_b_css == <<"d", "/", "b", ".", "c", "s", "s">>
d_w_zz == <<"d", "/", "w", ".", "z", "z">>

\* The --prefixes lists tried: none, the default [""], one prefix, a prefix
\* that matches nothing, and pairs that overlap, repeat or match nothing.
everything == << >>
under_d == <<"d", "/">>
under_z == <<"z">>

PrefixLists ==
    {<< >>, <<everything>>, <<under_d>>, <<under_z>>,
     <<everything, under_d>>, <<under_d, everything>>,
     <<under_d, under_d>>, <<under_z, under_d>>}

NoMetadata == [x \in {} |-> ""]

Obj(ct, md, cd) == [content_type |-> ct, metadata |-> md, content_disposition |-> cd]

\* Two buckets.  Bucket1 is the scenario of the specification: a wrongly
\* typed image, a correctly typed style sheet and a directory marker.
Bucket1 ==
    (a_png :> Obj("text/plain", NoMetadata, "attachment")) @@
    (d_b_css :> Obj("text/css", NoMetadata, None)) @@
    (d_dir :> Obj("application/x-directory", NoMetadata, None))

Bucket2 ==
    (a_png :> Obj("text/plain", ("Content-Type" :> "text/plain") @@ ("owner" :> "me"), "inline")) @@
    (d_b_css :> Obj("binary/octet-stream", ("owner" :> "me"), None)) @@
    (d_w_zz :> Obj("binary/octet-stream", NoMetadata, None))

Buckets == {Bucket1, Bucket2}

----------------------------------------------------------------------------
(* Pure functions *)

\* str.startswith, as the store's Prefix= filter applies it
startswith(s, p) ==
    /\ Len(p) <= Len(s)
    /\ SubSeq(s, 1, Len(p)) = p

\* str.endswith for a one-character suffix
endswith(s, c) ==
    /\ Len(s) > 0
    /\ s[Len(s)] = c

\* str.rfind for one character: the last 1-based index of c in s, 0 if absent
rfind(s, c) ==
    LET hits == {i \in 1..Len(s) : s[i] = c}
    IN IF hits = {} THEN 0 ELSE CHOOSE i \in hits : \A j \in hits : j <= i

\* posixpath.splitext(p)[1]: the extension starts at the last dot of the last
\* path component, unless that component has only dots before it
splitext(p) ==
    LET sepIndex == rfind(p, "/")
        dotIndex == rfind(p, ".")
    IN IF /\ dotIndex > sepIndex
          /\ \E i \in (sepIndex + 1)..(dotIndex - 1) : p[i] # "."
       THEN SubSeq(p, dotIndex, Len(p))
       ELSE << >>

\* mimetypes.types_map, restricted to the extensions the buckets use
types_map ==
    (<<".", "p", "n", "g">> :> "image/png") @@
    (<<".", "c", "s", "s">> :> "text/css")

\* mimetypes.guess_type(url)[0]
guess_type(url) ==
    LET ext == splitext(url)
    IN IF ext \in DOMAIN types_map THEN types_map[ext] ELSE None

\* Python truthiness of a string or None
truthy(s) == s # None /\ s # ""

\* bucket.objects.filter() called without the Prefix= argument
objects_filter_all(st, prefix) == DOMAIN st

\* bucket.objects.filter(Prefix=prefix): the keys of the store under a prefix
objects_filter(st, prefix) == {k \in DOMAIN st : startswith(k, prefix)}

\* The generator of line 20, before set() is applied: how many times each key
\* is produced, once per prefix that lists it.
listed(st, prefixes) ==
    [k \in DOMAIN st |-> Cardinality({i \in 1..Len(prefixes) : k \in objects_filter(st, prefixes[i])})]

\* find_matching_files without the set(): every produced summary is kept
find_matching_files_nodedup(st, prefixes) == listed(st, prefixes)

\* find_matching_files listing under the first prefix only
find_matching_files_first(st, prefixes) ==
    [k \in DOMAIN st |->
        IF Len(prefixes) > 0 /\ k \in objects_filter(st, prefixes[1]) THEN 1 ELSE 0]

\* find_matching_files: set(...) keeps one summary per key
find_matching_files(st, prefixes) ==
    [k \in DOMAIN st |-> IF listed(st, prefixes)[k] > 0 THEN 1 ELSE 0]

----------------------------------------------------------------------------
(* The store's side of the remote calls *)

\* lines 70-78 writing the current type, not the expected one, into the entry
adjust_metadata_current(k, expected_content_type) ==
    LET m1 == IF "Content-Type" \in DOMAIN k.metadata
              THEN [k.metadata EXCEPT !["Content-Type"] = k.content_type]
              ELSE k.metadata
    IN IF truthy(k.content_disposition)
       THEN [x \in DOMAIN m1 \cup {"Content-Disposition"} |->
                IF x = "Content-Disposition" THEN k.content_disposition ELSE m1[x]]
       ELSE m1

\* lines 70-78 with the test of line 74 left out: the entry is always written
adjust_metadata_always(k, expected_content_type) ==
    LET m1 == [x \in DOMAIN k.metadata \cup {"Content-Type"} |->
                  IF x = "Content-Type" THEN expected_content_type ELSE k.metadata[x]]
    IN IF truthy(k.content_disposition)
       THEN [x \in DOMAIN m1 \cup {"Content-Disposition"} |->
                IF x = "Content-Disposition" THEN k.content_disposition ELSE m1[x]]
       ELSE m1

\* lines 70-78: the metadata sent with the copy, from the loaded object k.  An
\* existing "Content-Type" entry is overwritten with the expected type; a
\* truthy content disposition is restated under "Content-Disposition".
adjust_metadata(k, expected_content_type) ==
    LET m1 == IF "Content-Type" \in DOMAIN k.metadata
              THEN [k.metadata EXCEPT !["Content-Type"] = expected_content_type]
              ELSE k.metadata
    IN IF truthy(k.content_disposition)
       THEN [x \in DOMAIN m1 \cup {"Content-Disposition"} |->
                IF x = "Content-Disposition" THEN k.content_disposition ELSE m1[x]]
       ELSE m1

\* The object a successful copy_from(MetadataDirective="REPLACE", Metadata=md,
\* ContentType=ct) leaves under the destination key.  The call does not name a
\* ContentDisposition: whether the store keeps the old header is the store's
\* choice (keep).
replaced(obj, md, ct, keep) ==
    Obj(ct, md, IF keep THEN obj.content_disposition ELSE None)

\* line 83: CopySource=key.bucket_name + '/' + key.key
copy_source(bucket_name, k) == bucket_name \o <<"/">> \o k

----------------------------------------------------------------------------
(* Initial states *)

Items(st) == DOMAIN st \cup {NoneKey}

\* A bucket.Object(key_name) whose attributes have not been loaded yet
Unloaded(k) ==
    [key |-> k, content_type |-> None, metadata |-> NoMetadata,
     content_disposition |-> None, expected |-> None]

NoProbe == [obj |-> Obj(None, NoMetadata, None), expected |-> None, n |-> 0,
            first |-> Obj(None, NoMetadata, None)]

\* The state of one invocation of main() at line 107, on a given store
StartOfRun(st, a) ==
    /\ store0 = st
    /\ mpc = "start"
    /\ mi = 0
    /\ files = [k \in DOMAIN st |-> 0]
    /\ queue = << >>
    /\ pc = [w \in 1..a.workers |-> "unstarted"]
    /\ key_name = [w \in 1..a.workers |-> NoneKey]
    /\ key = [w \in 1..a.workers |-> Unloaded(NoneKey)]
    /\ enqueued = [k \in Items(st) |-> 0]
    /\ dequeued = [k \in Items(st) |-> 0]
    /\ fetched = [k \in DOMAIN st |-> 0]
    /\ failed = {}
    /\ interrupted = {}
    /\ guessed = {}
    /\ out = {}
    /\ copies = {}

Init ==
    /\ store \in Buckets
    /\ args \in [prefixes : PrefixLists, workers : 1..MaxWorkers,
                 verbose : BOOLEAN, dryrun : BOOLEAN]
    /\ run = "first"
    /\ probe = NoProbe
    /\ StartOfRun(store, args)

----------------------------------------------------------------------------
(* main *)

Workers == DOMAIN pc

\* a join that only returns for a process that left its loop normally
Terminated_done(w) == pc[w] = "done"

\* The process has ended, by returning from check_headers or by an exception
Terminated(w) == pc[w] \in {"done", "crashed"}

\* lines 112-116: start one more worker process
StartWorker ==
    /\ mpc = "start"
    /\ mi < args.workers
    /\ pc' = [pc EXCEPT ![mi + 1] = "get"]
    /\ mi' = mi + 1
    /\ UNCHANGED <<store, store0, args, run, mpc, files, queue, key_name, key,
                   enqueued, dequeued, fetched, failed, interrupted, guessed, out, copies, probe>>

\* line 119: evaluate find_matching_files(bucket, args.prefixes)
ListFiles ==
    /\ mpc = "start"
    /\ mi = args.workers
    /\ files' = find_matching_files(store, args.prefixes)
    /\ mpc' = IF \E k \in DOMAIN files' : files'[k] > 0 THEN "put" ELSE "sentinel"
    /\ mi' = 0
    /\ UNCHANGED <<store, store0, args, run, queue, pc, key_name, key,
                   enqueued, dequeued, fetched, failed, interrupted, guessed, out, copies, probe>>

\* line 119: a listing request fails (there is one per prefix); main has no
\* handler around it and ends with the exception, after the workers were
\* started and before anything was put on the queue
ListFail ==
    /\ mpc = "start"
    /\ mi = args.workers
    /\ Len(args.prefixes) > 0
    /\ mpc' = "crashed"
    /\ UNCHANGED <<store, store0, args, run, mi, files, queue, pc, key_name, key,
                   enqueued, dequeued, fetched, failed, interrupted, guessed, out, copies, probe>>

\* lines 119-120: one iteration over the set (a set iterates in no particular
\* order): queue.put(key.key)
PutKey ==
    /\ mpc = "put"
    /\ \E k \in DOMAIN files :
         /\ files[k] > 0
         /\ files' = [files EXCEPT ![k] = @ - 1]
         /\ queue' = Append(queue, k)
         /\ enqueued' = [enqueued EXCEPT ![k] = @ + 1]
    /\ mpc' = IF \E k \in DOMAIN files' : files'[k] > 0 THEN "put" ELSE "sentinel"
    /\ UNCHANGED <<store, store0, args, run, mi, pc, key_name, key,
                   dequeued, fetched, failed, interrupted, guessed, out, copies, probe>>

\* line 125 outside the loop of line 124: one None for all workers
PutNone_once ==
    /\ mpc = "sentinel"
    /\ queue' = Append(queue, NoneKey)
    /\ enqueued' = [enqueued EXCEPT ![NoneKey] = @ + 1]
    /\ mi' = 0
    /\ mpc' = "join"
    /\ UNCHANGED <<store, store0, args, run, files, pc, key_name, key,
                   dequeued, fetched, failed, interrupted, guessed, out, copies, probe>>

\* lines 124-125: queue.put(None), once per worker
PutNone ==
    /\ mpc = "sentinel"
    /\ queue' = Append(queue, NoneKey)
    /\ enqueued' = [enqueued EXCEPT ![NoneKey] = @ + 1]
    /\ mi' = IF mi + 1 = args.workers THEN 0 ELSE mi + 1
    /\ mpc' = IF mi + 1 = args.workers THEN "join" ELSE "sentinel"
    /\ UNCHANGED <<store, store0, args, run, files, pc, key_name, key,
                   dequeued, fetched, failed, interrupted, guessed, out, copies, probe>>

NextJoin ==
    /\ mi' = IF mi + 1 = args.workers THEN 0 ELSE mi + 1
    /\ mpc' = IF mi + 1 = args.workers THEN "done" ELSE "join"
    /\ UNCHANGED <<store, store0, args, run, files, queue, pc, key_name, key,
                   enqueued, dequeued, fetched, failed, guessed, out, copies, probe>>

\* lines 127-130: proc.join() returns once the process has ended
Join ==
    /\ mpc = "join"
    /\ Terminated(mi + 1)
    /\ interrupted' = interrupted
    /\ NextJoin

\* lines 131-132 with break for pass: the interrupt ends the waiting
JoinInterrupt_break ==
    /\ mpc = "join"
    /\ ~Terminated(mi + 1)
    /\ interrupted' = interrupted \cup {mi + 1}
    /\ mi' = 0
    /\ mpc' = "done"
    /\ UNCHANGED <<store, store0, args, run, files, queue, pc, key_name, key,
                   enqueued, dequeued, fetched, failed, guessed, out, copies, probe>>

\* lines 131-132: KeyboardInterrupt while proc.join() blocks is passed over
\* and the loop goes on with the next process
JoinInterrupt ==
    /\ mpc = "join"
    /\ ~Terminated(mi + 1)
    /\ interrupted' = interrupted \cup {mi + 1}
    /\ NextJoin

----------------------------------------------------------------------------
(* check_headers, one worker process w *)

\* line 13
BLOCK_TIME == 3600

\* line 40: Queue.get(block=True, timeout=None) is called as
\* queue.get(BLOCK_TIME): the number is bound to block, which is only tested
\* for truth, and timeout stays None.
get_block == BLOCK_TIME # 0
get_timeout == None

\* a queue that hands out the newest item first
queue_get_last(q) == [item |-> q[Len(q)], rest |-> SubSeq(q, 1, Len(q) - 1)]

\* line 40: the queue hands out the oldest item and removes it
queue_get(q) == [item |-> Head(q), rest |-> Tail(q)]

\* line 49: a boto3 resource object defines neither __nonzero__ nor __len__
not_key(k) == FALSE

\* line 53 with the test left out
is_directory_never(k) == FALSE

\* line 53
is_directory(k) == endswith(k, "/")

\* line 59 with the test left out
not_expected_never(expected_content_type) == FALSE

\* line 59
not_expected(expected_content_type) == ~truthy(expected_content_type)

\* line 63 comparing the wrong way round
matches_never(content_type, expected_content_type) == content_type # expected_content_type

\* line 63
matches(content_type, expected_content_type) == content_type = expected_content_type

\* line 69 ignoring the flag
will_copy_always(dryrun) == TRUE

\* line 69
will_copy(dryrun) == ~dryrun

Line(stream, k, text, current, expected) ==
    [stream |-> stream, key |-> k, text |-> text, current |-> current, expected |-> expected]

\* lines 38-54: take the next item; None ends the loop.  Otherwise build the
\* object handle (no request is sent), report a falsy handle, skip directories.
\* On an empty queue the call waits while it blocks without a timeout; a call
\* that gives up raises, and the bare except of line 41 ends the loop.
Get(w) ==
    /\ pc[w] = "get"
    /\ IF queue = << >>
       THEN /\ ~(get_block /\ get_timeout = None)
            /\ pc' = [pc EXCEPT ![w] = "done"]
            /\ UNCHANGED <<queue, key_name, dequeued, key, out>>
       ELSE LET g == queue_get(queue)
                handle == Unloaded(g.item)
            IN /\ queue' = g.rest
               /\ key_name' = [key_name EXCEPT ![w] = g.item]
               /\ dequeued' = [dequeued EXCEPT ![g.item] = @ + 1]
               /\ IF g.item = NoneKey
                  THEN /\ pc' = [pc EXCEPT ![w] = "done"]
                       /\ UNCHANGED <<key, out>>
                  ELSE IF not_key(handle)
                  THEN /\ out' = out \cup {Line("stderr", handle.key, "Could not lookup", None, None)}
                       /\ pc' = [pc EXCEPT ![w] = "get"]
                       /\ UNCHANGED key
                  ELSE IF is_directory(handle.key)
                  THEN /\ pc' = [pc EXCEPT ![w] = "get"]
                       /\ UNCHANGED <<key, out>>
                  ELSE /\ key' = [key EXCEPT ![w] = handle]
                       /\ pc' = [pc EXCEPT ![w] = "fetch"]
                       /\ out' = out
    /\ UNCHANGED <<store, store0, args, run, mpc, mi, files,
                   enqueued, fetched, failed, interrupted, guessed, copies, probe>>

\* line 56: key.content_type loads the object's attributes with one request
Fetch(w) ==
    /\ pc[w] = "fetch"
    /\ LET o == store[key[w].key]
       IN key' = [key EXCEPT ![w].content_type = o.content_type,
                             ![w].metadata = o.metadata,
                             ![w].content_disposition = o.content_disposition]
    /\ fetched' = [fetched EXCEPT ![key[w].key] = @ + 1]
    /\ pc' = [pc EXCEPT ![w] = "guess"]
    /\ UNCHANGED <<store, store0, args, run, mpc, mi, files, queue, key_name,
                   enqueued, dequeued, failed, interrupted, guessed, out, copies, probe>>

\* line 56: the request fails; nothing catches the exception and the process ends
FetchFail(w) ==
    /\ pc[w] = "fetch"
    /\ fetched' = [fetched EXCEPT ![key[w].key] = @ + 1]
    /\ failed' = failed \cup {key[w].key}
    /\ pc' = [pc EXCEPT ![w] = "crashed"]
    /\ UNCHANGED <<store, store0, args, run, mpc, mi, files, queue, key_name, key,
                   enqueued, dequeued, interrupted, guessed, out, copies, probe>>

\* lines 57-61: guess the type from the name; report a key whose type could
\* not be guessed and go on
Guess(w) ==
    /\ pc[w] = "guess"
    /\ LET expected_content_type == guess_type(key[w].key)
       IN /\ guessed' = IF expected_content_type = None
                        THEN guessed \cup {key[w].key}
                        ELSE guessed
          /\ IF not_expected(expected_content_type)
             THEN /\ out' = out \cup {Line("stderr", key[w].key, "Could not guess content type", None, None)}
                  /\ pc' = [pc EXCEPT ![w] = "get"]
                  /\ key' = [key EXCEPT ![w] = Unloaded(NoneKey)]
             ELSE /\ out' = out
                  /\ pc' = [pc EXCEPT ![w] = "compare"]
                  /\ key' = [key EXCEPT ![w].expected = expected_content_type]
    /\ UNCHANGED <<store, store0, args, run, mpc, mi, files, queue, key_name,
                   enqueued, dequeued, fetched, failed, interrupted, copies, probe>>

\* lines 63-69: compare, report, decide whether to copy
Compare(w) ==
    /\ pc[w] = "compare"
    /\ IF matches(key[w].content_type, key[w].expected)
       THEN /\ out' = IF args.verbose
                      THEN out \cup {Line("stdout", key[w].key, "Matches expected content type", None, None)}
                      ELSE out
            /\ pc' = [pc EXCEPT ![w] = "get"]
       ELSE /\ out' = out \cup {Line("stdout", key[w].key, "does not match expected; fixing",
                                     key[w].content_type, key[w].expected)}
            /\ pc' = [pc EXCEPT ![w] = IF will_copy(args.dryrun) THEN "copy" ELSE "get"]
    /\ key' = IF pc'[w] = "get" THEN [key EXCEPT ![w] = Unloaded(NoneKey)] ELSE key
    /\ UNCHANGED <<store, store0, args, run, mpc, mi, files, queue, key_name,
                   enqueued, dequeued, fetched, failed, interrupted, guessed, copies, probe>>

\* lines 70-86: the arguments of key.copy_from(...), with what the worker
\* dequeued and what the store declared when the call was issued
CopyCall(w, ok) ==
    [Bucket |-> BucketName,
     Key |-> key[w].key,
     CopySource |-> copy_source(BucketName, key[w].key),
     MetadataDirective |-> "REPLACE",
     Metadata |-> adjust_metadata(key[w], key[w].expected),
     ContentType |-> key[w].expected,
     dequeued |-> key_name[w],
     declared |-> store[key[w].key].content_type,
     before |-> store[key[w].key].metadata,
     disposition |-> key[w].content_disposition,
     run |-> run,
     ok |-> ok]

\* lines 70-86: the copy succeeds and the store replaces the object's metadata
Copy(w) ==
    /\ pc[w] = "copy"
    /\ LET c == CopyCall(w, TRUE)
       IN /\ copies' = copies \cup {c}
          /\ \E keep \in BOOLEAN :
               store' = [store EXCEPT ![c.Key] = replaced(@, c.Metadata, c.ContentType, keep)]
    /\ pc' = [pc EXCEPT ![w] = "get"]
    /\ key' = [key EXCEPT ![w] = Unloaded(NoneKey)]
    /\ UNCHANGED <<store0, args, run, mpc, mi, files, queue, key_name,
                   enqueued, dequeued, fetched, failed, interrupted, guessed, out, probe>>

\* lines 80-86: the copy fails; nothing catches the exception and the process ends
CopyFail(w) ==
    /\ pc[w] = "copy"
    /\ copies' = copies \cup {CopyCall(w, FALSE)}
    /\ pc' = [pc EXCEPT ![w] = "crashed"]
    /\ UNCHANGED <<store, store0, args, run, mpc, mi, files, queue, key_name, key,
                   enqueued, dequeued, fetched, failed, interrupted, guessed, out, probe>>

Worker(w) ==
    \/ Get(w)
    \/ Fetch(w)
    \/ FetchFail(w)
    \/ Guess(w)
    \/ Compare(w)
    \/ Copy(w)
    \/ CopyFail(w)

\* The process has ended: main has returned and every worker process has
\* ended, by a None or by an uncaught exception
Finished ==
    /\ mpc = "done"
    /\ \A w \in Workers : Terminated(w)

Next ==
    \/ StartWorker
    \/ ListFiles
    \/ ListFail
    \/ PutKey
    \/ PutNone
    \/ Join
    \/ JoinInterrupt
    \/ \E w \in Workers : Get(w)
    \/ \E w \in Workers : Fetch(w)
    \/ \E w \in Workers : FetchFail(w)
    \/ \E w \in Workers : Guess(w)
    \/ \E w \in Workers : Compare(w)
    \/ \E w \in Workers : Copy(w)
    \/ \E w \in Workers : CopyFail(w)

Spec == Init /\ [][Next]_vars

\* The operator runs the program again, with the same arguments, on the store
\* the first run left
Rerun ==
    /\ run = "first"
    /\ Finished
    /\ run' = "second"
    /\ store0' = store
    /\ mpc' = "start"
    /\ mi' = 0
    /\ files' = [k \in DOMAIN store |-> 0]
    /\ queue' = << >>
    /\ pc' = [w \in 1..args.workers |-> "unstarted"]
    /\ key_name' = [w \in 1..args.workers |-> NoneKey]
    /\ key' = [w \in 1..args.workers |-> Unloaded(NoneKey)]
    /\ enqueued' = [k \in Items(store) |-> 0]
    /\ dequeued' = [k \in Items(store) |-> 0]
    /\ fetched' = [k \in DOMAIN store |-> 0]
    /\ failed' = {}
    /\ interrupted' = {}
    /\ guessed' = {}
    /\ out' = {}
    /\ copies' = {}
    /\ UNCHANGED <<store, args, probe>>

Next2 ==
    \/ Next
    \/ Rerun

Spec2 == Init /\ [][Next2]_vars

\* Every started process is scheduled; main's steps are those of its own code
\* (an interrupt is the operator's choice, not a step main must take).
MainStep ==
    \/ StartWorker
    \/ ListFiles
    \/ PutKey
    \/ PutNone
    \/ Join

FairSpec ==
    /\ Spec
    /\ WF_vars(MainStep)
    /\ \A w \in 1..MaxWorkers : WF_vars(w \in Workers /\ Worker(w))

----------------------------------------------------------------------------
(* The fix as a function of one object: lines 70-86 applied to the object a *)
(* worker has just loaded, then applied again to what the store holds.      *)

fix(obj, expected_content_type, keep) ==
    replaced(obj, adjust_metadata(obj, expected_content_type), expected_content_type, keep)

MetadataNames == {"Content-Type", "Content-Disposition", "owner"}
MetadataValues == {"text/plain", "inline"}
ProbeMetadata == UNION {[S -> MetadataValues] : S \in SUBSET MetadataNames}

ProbeObjects ==
    [content_type : {"", "text/plain", "image/png"},
     metadata : ProbeMetadata,
     content_disposition : {None, "", "inline"}]

InitFix ==
    /\ store = Bucket1
    /\ args = [prefixes |-> <<everything>>, workers |-> 1, verbose |-> FALSE, dryrun |-> FALSE]
    /\ run = "first"
    /\ StartOfRun(store, args)
    /\ probe \in [obj : ProbeObjects, expected : {"image/png", "text/css"}, n : {0},
                  first : {NoProbe.first}]

ApplyFix ==
    /\ probe.n < MaxApplications
    /\ \E keep \in BOOLEAN :
         LET o == fix(probe.obj, probe.expected, keep)
         IN probe' = [obj |-> o, expected |-> probe.expected, n |-> probe.n + 1,
                      first |-> IF probe.n = 0 THEN o ELSE probe.first]
    /\ UNCHANGED mainvars

SpecFix == InitFix /\ [][ApplyFix]_vars

----------------------------------------------------------------------------
(* Properties *)

\* A key is a prefix's candidate when the prefix is an initial segment of it
IsPrefixOf(p, k) == \E n \in 0..Len(k) : SubSeq(k, 1, n) = p

Candidates ==
    {k \in DOMAIN store : \E i \in 1..Len(args.prefixes) : IsPrefixOf(args.prefixes[i], k)}

\* The worker holds a dequeued key and has not yet gone back to the queue
Processing(w) == pc[w] \in {"fetch", "guess", "compare", "copy"}

Reported(k) == \E l \in out : l.key = k

\* C1: every key is dequeued at most once, and no two workers are ever
\* processing (fetching, comparing or rewriting) the same key.
C1_KeyDequeuedAtMostOnce ==
    /\ \A k \in DOMAIN store : dequeued[k] <= 1
    /\ \A v, w \in Workers :
         (v # w /\ Processing(v) /\ Processing(w)) => key[v].key # key[w].key

\* Two workers are processing at once, and a key listed under two prefixes
\* has been dequeued.
C1_Witness ==
    /\ \E v, w \in Workers : v # w /\ Processing(v) /\ Processing(w)
    /\ \E k \in DOMAIN store :
         /\ dequeued[k] = 1
         /\ Cardinality({i \in 1..Len(args.prefixes) : IsPrefixOf(args.prefixes[i], k)}) = 2

\* C2: every candidate key is eventually dequeued and all workers eventually
\* terminate; as a final result: a run that can take no further step has
\* ended with every process terminated and every candidate key dequeued.
C2_AllKeysDequeuedAllWorkersEnd ==
    \/ ENABLED Next
    \/ /\ Finished
       /\ \A k \in Candidates : dequeued[k] >= 1

\* C3: in a dry run no copy is ever issued and every object's declared type
\* and metadata are those of the start of the run.
C3_DryRunChangesNothing ==
    args.dryrun =>
        /\ copies = {}
        /\ \A k \in DOMAIN store :
             /\ store[k].content_type = store0[k].content_type
             /\ store[k].metadata = store0[k].metadata

\* A dry run has ended after reporting a mismatch.
C3_Witness ==
    /\ args.dryrun
    /\ Finished
    /\ \E l \in out : l.text = "does not match expected; fixing"

\* C4: after a run that is not a dry run has finished, every candidate key
\* that is no directory and has an inferable type declares the inferred type.
C4_FinishedRunFixedEveryKey ==
    (Finished /\ ~args.dryrun) =>
        \A k \in Candidates :
            (~endswith(k, "/") /\ guess_type(k) # None) =>
                store[k].content_type = guess_type(k)

\* C5: a copy is issued only while the store declares a type other than the
\* inferred one, copies the dequeued key onto itself in the same bucket, and
\* sets the inferred type.
C5_CopyOnlyOnMismatchOntoItself ==
    \A c \in copies :
        /\ c.declared # guess_type(c.dequeued)
        /\ c.ContentType = guess_type(c.dequeued)
        /\ c.Key = c.dequeued
        /\ c.Bucket = BucketName
        /\ c.CopySource = c.Bucket \o <<"/">> \o c.dequeued

\* A copy has succeeded while another key of the run matched.
C5_Witness ==
    /\ \E c \in copies : c.ok
    /\ \E k \in DOMAIN store : dequeued[k] = 1 /\ store0[k].content_type = guess_type(k)
    /\ Finished

\* C6: for a key ending in "/" nothing is fetched, compared, rewritten or
\* reported, and the worker that dequeued it is back at the queue.
C6_DirectorySkipped ==
    \A k \in DOMAIN store :
        endswith(k, "/") =>
            /\ fetched[k] = 0
            /\ ~Reported(k)
            /\ \A c \in copies : c.Key # k /\ c.dequeued # k
            /\ \A w \in Workers : key_name[w] = k => pc[w] = "get"

\* A worker has dequeued a directory key and gone on to a later item.
C6_Witness ==
    \E k \in DOMAIN store :
        /\ endswith(k, "/")
        /\ dequeued[k] = 1
        /\ \E w \in Workers : Processing(w) /\ dequeued[key[w].key] = 1

\* C7: when type inference returns no type for a key, the failure is
\* reported, no copy is issued for the key, the worker is back at the queue,
\* and a run that can take no further step has ended.
C7_UnguessableReportedNotFixed ==
    /\ \A k \in guessed :
         /\ \E l \in out : /\ l.key = k
                           /\ l.stream = "stderr"
                           /\ l.text = "Could not guess content type"
         /\ \A c \in copies : c.Key # k /\ c.dequeued # k
         /\ \A w \in Workers : key_name[w] = k => pc[w] = "get"
    /\ \A w \in Workers : pc[w] \in {"compare", "copy"} => key[w].expected # None
    /\ guessed # {} => (ENABLED Next \/ Finished)

\* Inference has failed for a key and the run has ended.
C7_Witness ==
    /\ guessed # {}
    /\ Finished

\* C8: the keys main enqueues are the keys listed under at least one prefix,
\* each once, however many prefixes list it.
C8_EnqueuedIsDeduplicatedUnion ==
    /\ \A k \in DOMAIN store : enqueued[k] <= (IF k \in Candidates THEN 1 ELSE 0)
    /\ mpc \in {"sentinel", "join", "done"} =>
         \A k \in DOMAIN store : enqueued[k] = (IF k \in Candidates THEN 1 ELSE 0)

\* The keys were enqueued from two prefixes, one listing a key the other lists
\* too and one listing nothing.
C8_Witness ==
    /\ mpc = "done"
    /\ \E k \in DOMAIN store :
         /\ enqueued[k] = 1
         /\ \A i \in 1..Len(args.prefixes) : IsPrefixOf(args.prefixes[i], k)
         /\ Len(args.prefixes) = 2
    /\ \E k \in DOMAIN store : enqueued[k] = 0

\* C9: applying the fix again with the same expected type leaves the declared
\* type and the metadata as the first application left them.
C9_FixIdempotent ==
    probe.n >= 2 =>
        /\ probe.obj.content_type = probe.first.content_type
        /\ probe.obj.metadata = probe.first.metadata

\* The fix was applied twice to an object that had a "Content-Type" entry and
\* a content disposition.
C9_Witness ==
    /\ probe.n >= 2
    /\ "Content-Type" \in DOMAIN probe.obj.metadata
    /\ probe.obj.metadata["Content-Type"] = probe.expected
    /\ "Content-Disposition" \in DOMAIN probe.obj.metadata
    /\ probe.obj.metadata["Content-Disposition"] = "inline"

\* C10: a second run that is not a dry run, on the store a finished first run
\* left, issues no copy and leaves every object's declared type and metadata
\* unchanged.
C10_SecondRunChangesNothing ==
    (run = "second" /\ ~args.dryrun) =>
        /\ copies = {}
        /\ \A k \in DOMAIN store :
             /\ store[k].content_type = store0[k].content_type
             /\ store[k].metadata = store0[k].metadata

\* C11: when fetching a dequeued key fails, the worker reports a lookup
\* failure for that key and goes on with the next queue item; the failure does
\* not end the worker.
C11_FetchFailureReportedWorkerContinues ==
    \A k \in failed :
        /\ \E l \in out : l.key = k /\ l.text = "Could not lookup"
        /\ \A w \in Workers : key_name[w] = k => pc[w] # "crashed"

\* C12: a failed copy is not retried, and it does not stop the worker that
\* issued it, which goes on to dequeue the next item.
C12_CopyFailureDoesNotStopWorker ==
    /\ \A c, d \in copies : (c.Key = d.Key /\ c.run = d.run) => c = d
    /\ \A c \in copies :
         ~c.ok => \A w \in Workers : key_name[w] = c.dequeued => pc[w] # "crashed"

\* The worker's own last item is the one whose store call raised
OwnFailure(w) ==
    \/ key_name[w] \in failed
    \/ \E c \in copies : ~c.ok /\ c.dequeued = key_name[w] /\ c.run = run

\* C13: after a copy has failed in one worker, every other worker ends only by
\* a failure of its own or by a sentinel taken after every key was dequeued,
\* a worker that has not ended can always take its next step once the
\* sentinels are queued, and main, unless interrupted, returns only when all
\* workers have ended; the run never stops short of that.
C13_OtherWorkersUnaffectedByCopyFailure ==
    (\E c \in copies : ~c.ok /\ c.run = run) =>
        /\ ENABLED Next \/ Finished
        /\ \A w \in Workers :
             /\ pc[w] = "crashed" => OwnFailure(w)
             /\ pc[w] = "done" =>
                  /\ key_name[w] = NoneKey
                  /\ \A k \in Candidates : dequeued[k] = 1
             /\ (~Terminated(w) /\ mpc \in {"join", "done"}) => ENABLED Worker(w)
        /\ (mpc = "done" /\ interrupted = {}) => \A w \in Workers : Terminated(w)

\* A copy failed in one worker; another worker later copied a key, took its
\* sentinel and ended, and main has returned.
C13_Witness ==
    /\ Finished
    /\ \E v, w \in Workers :
         /\ v # w
         /\ pc[v] = "crashed"
         /\ \E c \in copies : ~c.ok /\ c.dequeued = key_name[v]
         /\ pc[w] = "done"
    /\ \E c \in copies : c.ok

\* C14: a worker does not stay blocked on the empty queue for ever: when
\* nothing more can arrive, no worker is left waiting in queue.get.
C14_NoWorkerBlockedForever ==
    ENABLED Next \/ \A w \in Workers : pc[w] # "get"

\* C15: main has returned from its wait step only in states where every worker
\* has ended and no copy is in flight.
C15_ReturnsOnlyWhenAllWorkersEnded ==
    mpc = "done" =>
        \A w \in Workers : Terminated(w) /\ pc[w] # "copy"

\* C16: an interrupt of the join of one worker does not end main's waiting:
\* main is still in or past the wait step, and it returns only after every
\* later worker has ended or had its own join interrupted.
C16_InterruptAbsorbedPerWorker ==
    \A w \in interrupted :
        /\ mpc \in {"join", "done"}
        /\ mpc = "join" => mi >= w
        /\ mpc = "done" =>
             \A v \in Workers : (v > w /\ v \notin interrupted) => Terminated(v)

\* The join of worker 1 was interrupted while it was still running; main then
\* waited for worker 2 to end and returned.
C16_Witness ==
    /\ mpc = "done"
    /\ interrupted = {1}
    /\ ~Terminated(1)
    /\ args.workers = 2
    /\ pc[2] = "done"

\* C17: once any worker has dequeued a sentinel, every candidate key has
\* already been dequeued; none is dequeued after it.
C17_NoKeyDequeuedAfterSentinel ==
    dequeued[NoneKey] > 0 => \A k \in Candidates : dequeued[k] = 1

\* One worker has taken a sentinel while another is still processing a key.
C17_Witness ==
    /\ dequeued[NoneKey] > 0
    /\ \E v, w \in Workers : pc[v] = "done" /\ Processing(w)

\* C18: main enqueues exactly W sentinels, all after every candidate key was
\* enqueued; each worker takes at most one sentinel and then does nothing more.
C18_ExactlyWSentinelsAfterAllKeys ==
    /\ enqueued[NoneKey] <= args.workers
    /\ mpc \in {"join", "done"} => enqueued[NoneKey] = args.workers
    /\ enqueued[NoneKey] > 0 =>
         \A k \in DOMAIN store : enqueued[k] = IF k \in Candidates THEN 1 ELSE 0
    /\ \A i, j \in 1..Len(queue) : (i < j /\ queue[i] = NoneKey) => queue[j] = NoneKey
    /\ dequeued[NoneKey] = Cardinality({w \in Workers : pc[w] = "done"})
    /\ \A w \in Workers :
         pc[w] = "done" => key_name[w] = NoneKey /\ ~ENABLED Worker(w)

\* Two workers each took one of the two sentinels after the keys were handled,
\* and the run is over.
C18_Witness ==
    /\ Finished
    /\ args.workers = 2
    /\ dequeued[NoneKey] = 2
    /\ \E k \in Candidates : dequeued[k] = 1

\* C19: the metadata sent with a copy is the object's mapping with the
\* "Content-Type" entry set to the expected type only where the mapping had
\* such an entry, a "Content-Disposition" entry holding the object's
\* disposition only where the object has one, and every other entry unchanged.
C19_MetadataTwoAdjustments ==
    \A c \in copies :
        LET has_cd == truthy(c.disposition)
        IN /\ DOMAIN c.Metadata =
                DOMAIN c.before \cup (IF has_cd THEN {"Content-Disposition"} ELSE {})
           /\ \A x \in DOMAIN c.Metadata :
                c.Metadata[x] =
                    IF x = "Content-Disposition" /\ has_cd THEN c.disposition
                    ELSE IF x = "Content-Type" THEN c.ContentType
                    ELSE c.before[x]

\* One copy overwrote a "Content-Type" entry, added the disposition and kept
\* another entry; another copy was sent for an object without that entry.
C19_Witness ==
    /\ \E c \in copies :
         /\ "Content-Type" \in DOMAIN c.before
         /\ c.before["Content-Type"] # c.ContentType
         /\ c.Metadata["Content-Type"] = c.ContentType
         /\ truthy(c.disposition)
         /\ "owner" \in DOMAIN c.Metadata
    /\ \E c \in copies :
         /\ "Content-Type" \notin DOMAIN c.before
         /\ c.before # NoMetadata

\* C20: the set of keys never changes; objects outside the candidate set,
\* directory keys, keys with no guessable type and keys whose declared type
\* matches keep their initial type and metadata; an object differs from its
\* initial value only after a successful copy onto it.
C20_OnlyProcessedObjectsChange ==
    /\ DOMAIN store = DOMAIN store0
    /\ \A k \in DOMAIN store :
         (\/ k \notin Candidates
          \/ is_directory(k)
          \/ ~truthy(guess_type(k))
          \/ store0[k].content_type = guess_type(k)) =>
            /\ store[k].content_type = store0[k].content_type
            /\ store[k].metadata = store0[k].metadata
    /\ \A k \in DOMAIN store :
         store[k] # store0[k] => \E c \in copies : c.ok /\ c.Key = k

\* A finished run changed a candidate and left alone a wrongly typed object
\* outside the prefixes.
C20_Witness ==
    /\ Finished
    /\ \E k \in Candidates : store[k].content_type # store0[k].content_type
    /\ \E k \in DOMAIN store :
         /\ k \notin Candidates
         /\ truthy(guess_type(k))
         /\ store0[k].content_type # guess_type(k)
         /\ store[k] = store0[k]

====
